---- MODULE Spec2Model ----
(***************************************************************************)
(* Model of camera_stream.py: the capture thread (capture_frames), the     *)
(* per-connection MJPEG workers (StreamHandler.stream_video), the          *)
(* analysis thread (ai_analysis_loop) and the JSON endpoints               *)
(* (/status, /analysis, /toggle_ai), sharing output_frame under `lock`     *)
(* and analysis_result under `analysis_lock`.                              *)
(*                                                                         *)
(* A frame is a buffer on a heap: camera.read() returns a fresh array, the *)
(* slot output_frame holds a reference to it, and output_frame.copy()      *)
(* gives the reader a value of its own.  A buffer has two pixels so that a *)
(* half-written or half-copied frame is a state of the model.              *)
(***************************************************************************)
EXTENDS Integers, Sequences, FiniteSets, TLC

\* ---------------------------------------------------------------- bounds
MaxFrames == 2        \* successful camera.read() calls in the capture loop
MaxChunks == 1        \* multipart chunks a client accepts before it goes away
MaxCycles == 1        \* analysis cycles that pass the enabled check
NumModes == 2         \* capture modes the device may negotiate
MaxAnalysisCycles == 3   \* analysis cycles when the inference service may fail
MaxBackoffCycles == 8    \* analysis cycles when the backoff sequence is followed
MaxTextLen == 6          \* pieces in a response text handed to the cleanup

\* ------------------------------------------------------ program constants
FailureThreshold == 30

\* Durations in tenths of a second.
AnalysisInterval == 50   \* AI_CONFIG['analysis_interval'] = 5.0
BackoffCap == 300        \* min(..., 30.0)
MinDelay == 1            \* max(0.1, ...)
WaitPoll == 5            \* time.sleep(0.5) while there is no frame
DisabledPoll == 10       \* time.sleep(1.0) while analysis is disabled
FastReply == 12          \* a cycle that takes 1.2 s

\* Two /video_feed connections: the workers run the same code and share nothing
\* but the slot and its lock.
Workers == {1, 2}

\* Two /toggle_ai requests may be in progress at once (ThreadingMixIn).
Togglers == {1, 2}

\* The time a successful cycle takes, as read at lines 730 and 769.
ReplyTimes == {0, FastReply, AnalysisInterval - MinDelay, AnalysisInterval, 75}
Modes == 1..NumModes
Buffers == 0..MaxFrames

\* Lock owners.
Free == <<"free", 0>>
CapT == <<"cap", 0>>
AiT == <<"ai", 0>>
AnT == <<"an", 0>>
WorkerT(w) == <<"w", w>>

\* The value None of camera; a cv2.VideoCapture handle otherwise.
NoCamera == [opened |-> FALSE, mode |-> 0]
Handle(m) == [opened |-> TRUE, mode |-> m]
Released(h) == [h EXCEPT !.opened = FALSE]

\* cv2 property values of a capture mode; a released handle reports 0.
ModeWidth(m) == 640 * m
ModeHeight(m) == 360 * m
ModeFps(m) == 15 * m
CameraGetWidthOnly(h, prop) == IF ~h.opened THEN 0 ELSE ModeWidth(h.mode)
CameraGet(h, prop) ==
    IF ~h.opened THEN 0
    ELSE CASE prop = "width" -> ModeWidth(h.mode)
           [] prop = "height" -> ModeHeight(h.mode)
           [] OTHER -> ModeFps(h.mode)

NoPixels == <<0, 0>>
NoResp == [status |-> "none", width |-> 0, height |-> 0, fps |-> 0]

VARIABLES
    output_frame,          \* the shared slot: 0 (None) or a buffer reference
    lock,                  \* owner of `lock`
    camera,                \* the global camera: NoCamera (None) or a handle
    heap,                  \* buffer reference -> its two pixels
    capPc,                 \* position of capture_frames
    consecutive_failures,  \* capture_frames' local counter
    frame,                 \* capture_frames' local frame reference
    nreads,                \* successful loop reads so far (next buffer = nreads + 1)
    version,               \* publishes so far
    nOpen,                 \* device handles currently open
    exceeded,              \* the counter exceeded the threshold since the last loop read
    reopenAttempts,        \* open_camera calls since the last loop read
    negotiated,            \* mode of the last successful open_camera (0: none)
    wPc, wRef, wPrev, wFrame, wChunks,   \* per stream worker
    aiPc, aiRef, aiPrev, aiFrame,        \* analysis loop: position and snapshot
    ai_enabled, ncycles, nsubmits, frame_count, consecutive_errors, aiErr,
    elapsed,               \* time.time() - start_time of a successful cycle (0: none)
    sleep_time,            \* argument of the analysis loop's current time.sleep (0: awake)
    enabledAtUpdate,       \* ai_enabled as it was when the cycle's result was applied
    aiEvent,               \* what the cycle's request met: a response or an exception
    analysis_result, analysis_lock,
    committed,             \* analysis_result as the last finished update left it
    stPc, stResp, stW, stH,    \* one /status request at a time: position, body, locals
    stCam,                     \* the handle the isOpened() check saw
    stClean,                   \* every later read of camera saw that same handle
    stPub,                     \* a frame had been published when the request began
    anPc, anResp,              \* one /analysis request at a time
    tgPc, tgRead, tgResp,      \* per /toggle_ai handler: position, value read, body
    response_text,             \* result_data.get('response', ...) as received
    result_text,               \* the local result_text of lines 721-728
    textPc                     \* position of the cleanup within lines 721-728

busVars == <<output_frame, lock, heap>>
capVars == <<camera, capPc, consecutive_failures, frame, nreads, version, nOpen,
             exceeded, reopenAttempts, negotiated>>
wVars == <<wPc, wRef, wPrev, wFrame, wChunks>>
aiPaceVars == <<elapsed, sleep_time, enabledAtUpdate, aiEvent>>
aiVars == <<aiPc, aiRef, aiPrev, aiFrame, ncycles, nsubmits, frame_count,
            consecutive_errors, aiErr, aiPaceVars>>
anaVars == <<analysis_result, analysis_lock, committed>>
stVars == <<stPc, stResp, stW, stH, stCam, stClean, stPub>>
anVars == <<anPc, anResp>>
tgVars == <<tgPc, tgRead, tgResp>>
textVars == <<response_text, result_text, textPc>>
vars == <<busVars, capVars, wVars, aiVars, ai_enabled, anaVars, stVars, anVars, tgVars,
          textVars>>

\* ------------------------------------------------------------------ Init
InitialAnalysis ==
    [description |-> "Waiting for first analysis...", timestamp |-> 0,
     processing_time |-> 0, error |-> "none", frame_count |-> 0]

NoAnalysis == [enabled |-> FALSE, result |-> InitialAnalysis, sent |-> FALSE]

\* main(): ai_enabled = not args.no_ai; the analysis thread is started only if enabled.
InitProgram(no_ai) ==
    /\ output_frame = 0
    /\ lock = Free
    /\ camera = NoCamera
    /\ heap = [b \in Buffers |-> NoPixels]
    /\ capPc = "open"
    /\ consecutive_failures = 0
    /\ frame = 0
    /\ nreads = 0
    /\ version = 0
    /\ nOpen = 0
    /\ exceeded = FALSE
    /\ reopenAttempts = 0
    /\ negotiated = 0
    /\ wPc = [w \in Workers |-> "idle"]
    /\ wRef = [w \in Workers |-> 0]
    /\ wPrev = [w \in Workers |-> 0]
    /\ wFrame = [w \in Workers |-> NoPixels]
    /\ wChunks = [w \in Workers |-> 0]
    /\ aiPc = IF no_ai THEN "not_started" ELSE "wait_acq"
    /\ aiRef = 0
    /\ aiPrev = 0
    /\ aiFrame = NoPixels
    /\ ai_enabled = ~no_ai
    /\ ncycles = 0
    /\ nsubmits = 0
    /\ frame_count = 0
    /\ consecutive_errors = 0
    /\ aiErr = "none"
    /\ elapsed = 0
    /\ sleep_time = 0
    /\ enabledAtUpdate = TRUE
    /\ aiEvent = "none"
    /\ analysis_result = InitialAnalysis
    /\ committed = InitialAnalysis
    /\ analysis_lock = Free
    /\ stPc = "idle"
    /\ stResp = NoResp
    /\ stW = 0
    /\ stH = 0
    /\ stCam = NoCamera
    /\ stClean = TRUE
    /\ stPub = FALSE
    /\ anPc = "idle"
    /\ anResp = NoAnalysis
    /\ tgPc = [t \in Togglers |-> "idle"]
    /\ tgRead = [t \in Togglers |-> FALSE]
    /\ tgResp = [t \in Togglers |-> "none"]

\* The program at start, no response text received yet.
InitWith(no_ai) ==
    /\ InitProgram(no_ai)
    /\ response_text = <<>>
    /\ result_text = <<>>
    /\ textPc = "idle"

\* AI_CONFIG['enabled_by_default'] / no --no-ai flag.
Init == InitWith(FALSE)

\* Started with or without --no-ai.
InitAny == \E no_ai \in BOOLEAN : InitWith(no_ai)

\* --------------------------------------------------------- capture thread
\* The state of the capture service (spec section 4.2), read off the code position.
CaptureState ==
    CASE capPc = "open" -> "Opening"
      [] capPc = "closed" -> "Closed"
      [] capPc \in {"reopen_wait", "reopen"} -> "Reopening"
      [] capPc = "failed" -> "Failed"
      [] OTHER -> "Capturing"

NotCapture ==
    UNCHANGED <<wVars, aiVars, ai_enabled, anaVars, stVars, anVars, tgVars,
                textVars>>

\* open_camera: "noopen" (VideoCapture not opened), "noframe" (test read fails, the
\* handle is released again), or "ok" (a handle with the negotiated mode).
OpenOutcomes == {"noopen", "noframe", "ok"}

\* open_camera, lines 571-609: the handles open after the call. "noopen" never had
\* one (573-575), "noframe" releases the one it opened (605), "ok" returns it open.
OpenHandlesAfterNoRelease(out, n) == IF out \in {"ok", "noframe"} THEN n + 1 ELSE n
OpenHandlesAfter(out, n) == IF out = "ok" THEN n + 1 ELSE n

\* Lines 618-626: camera is None after the initial open: capture_frames returns.
AfterInitialOpenFailureRead == "read"
AfterInitialOpenFailure == "closed"

\* capture_frames, lines 616-630: the initial open.
CapOpenInitial ==
    /\ capPc = "open"
    /\ \E out \in OpenOutcomes, m \in Modes :
         /\ nOpen' = OpenHandlesAfter(out, nOpen)
         /\ IF out = "ok"
            THEN /\ camera' = Handle(m)
                 /\ negotiated' = m
                 /\ capPc' = "read"
            ELSE /\ camera' = NoCamera
                 /\ capPc' = AfterInitialOpenFailure
                 /\ UNCHANGED negotiated
    /\ consecutive_failures' = 0
    /\ UNCHANGED <<busVars, frame, nreads, version, exceeded, reopenAttempts>>
    /\ NotCapture

\* camera.read() returns a new array on every call (line 632).
ReadTargetReuse(n) == IF output_frame # 0 THEN output_frame ELSE n
ReadTarget(n) == n

\* Line 648: consecutive_failures = 0 after a successful read.
ReadOkCounterKept(c) == c
ReadOkCounter(c) == 0

\* Line 636: if consecutive_failures > 30.
ExceedsThresholdAlways(c) == c > 0
ExceedsThreshold(c) == c > FailureThreshold

\* Lines 641-643: a failed reopen returns from capture_frames.
AfterReopenFailureRetry == "retry_sleep"
AfterReopenFailure == "failed"

\* Line 632, a successful read, first half: the device fills a buffer.
CapReadBegin ==
    /\ capPc = "read"
    /\ nreads < MaxFrames
    /\ nreads' = nreads + 1
    /\ frame' = ReadTarget(nreads + 1)
    /\ heap' = [heap EXCEPT ![frame'] = <<nreads + 1, @[2]>>]
    /\ capPc' = "read_fill"
    /\ exceeded' = FALSE
    /\ reopenAttempts' = 0
    /\ UNCHANGED <<output_frame, lock, camera, consecutive_failures, version, nOpen,
                   negotiated>>
    /\ NotCapture

\* Lines 632-648: the read returns the frame; the counter is reset.
CapReadOk ==
    /\ capPc = "read_fill"
    /\ heap' = [heap EXCEPT ![frame] = <<@[1], nreads>>]
    /\ consecutive_failures' = ReadOkCounter(consecutive_failures)
    /\ capPc' = "pub_acq"
    /\ UNCHANGED <<output_frame, lock, camera, frame, nreads, version, nOpen,
                   exceeded, reopenAttempts, negotiated>>
    /\ NotCapture

\* Line 650: with lock (blocks while another thread holds it).
CapAcquire ==
    /\ capPc = "pub_acq"
    /\ lock = Free
    /\ lock' = CapT
    /\ capPc' = "publish"
    /\ UNCHANGED <<output_frame, heap, camera, consecutive_failures, frame, nreads,
                   version, nOpen, exceeded, reopenAttempts, negotiated>>
    /\ NotCapture

\* Line 651: output_frame = frame, then the lock is released.
CapPublish ==
    /\ capPc = "publish"
    /\ output_frame' = frame
    /\ version' = version + 1
    /\ lock' = Free
    /\ capPc' = "read"
    /\ UNCHANGED <<heap, camera, consecutive_failures, frame, nreads, nOpen,
                   exceeded, reopenAttempts, negotiated>>
    /\ NotCapture

\* Lines 636-643: the reopen branch releases the device and assigns camera; it
\* does not assign output_frame.
SlotAfterReleaseCleared(slot) == 0
SlotAfterRelease(slot) == slot

\* Lines 634-646: a failed read; above the threshold the device is released.
CapReadFail ==
    /\ capPc = "read"
    /\ consecutive_failures' = consecutive_failures + 1
    /\ frame' = 0
    /\ reopenAttempts' = 0
    /\ IF ExceedsThreshold(consecutive_failures')
       THEN /\ camera' = Released(camera)
            /\ nOpen' = nOpen - 1
            /\ exceeded' = TRUE
            /\ capPc' = "reopen_wait"
            /\ output_frame' = SlotAfterRelease(output_frame)
       ELSE /\ exceeded' = FALSE
            /\ capPc' = "retry_sleep"
            /\ UNCHANGED <<camera, nOpen, output_frame>>
    /\ UNCHANGED <<lock, heap, nreads, version, negotiated>>
    /\ NotCapture

\* Line 639: time.sleep(1) is over.
CapReopenWake ==
    /\ capPc = "reopen_wait"
    /\ capPc' = "reopen"
    /\ UNCHANGED <<busVars, camera, consecutive_failures, frame, nreads, version,
                   nOpen, exceeded, reopenAttempts, negotiated>>
    /\ NotCapture

\* Lines 640-644: camera = open_camera(...) with the given outcome; None ends the
\* thread.
CapReopenWith(out) ==
    /\ capPc = "reopen"
    /\ reopenAttempts' = reopenAttempts + 1
    /\ nOpen' = OpenHandlesAfter(out, nOpen)
    /\ \E m \in Modes :
         IF out = "ok"
         THEN /\ camera' = Handle(m)
              /\ negotiated' = m
              /\ consecutive_failures' = 0
              /\ capPc' = "retry_sleep"
         ELSE /\ camera' = NoCamera
              /\ capPc' = AfterReopenFailure
              /\ UNCHANGED <<negotiated, consecutive_failures>>
    /\ UNCHANGED <<busVars, frame, nreads, version, exceeded>>
    /\ NotCapture

\* Line 640 with any outcome of open_camera.
CapReopen == \E out \in OpenOutcomes : CapReopenWith(out)

\* Line 645: time.sleep(0.01) is over; continue.
CapRetryWake ==
    /\ capPc = "retry_sleep"
    /\ capPc' = "read"
    /\ UNCHANGED <<busVars, camera, consecutive_failures, frame, nreads, version,
                   nOpen, exceeded, reopenAttempts, negotiated>>
    /\ NotCapture

CaptureLoop == CapOpenInitial \/ CapReadBegin \/ CapReadOk \/ CapAcquire \/ CapPublish
CaptureReopen == CapReopenWake \/ CapReopen

\* --------------------------------------------------------- stream workers
NotWorker ==
    UNCHANGED <<capVars, aiVars, ai_enabled, anaVars, stVars, anVars, tgVars,
                textVars>>

\* Lines 117 and 685: output_frame is None.
SlotEmptyNever(slot) == FALSE
SlotEmpty(slot) == slot = 0

\* stream_video only reads the slot: encoding works on the worker's own copy
\* (lines 120-123).
SlotAfterEncodeWriteBack(slot, ref) == ref
SlotAfterEncode(slot, ref) == slot

\* do_GET, lines 86-93: a client connects to /video_feed; headers are sent.
WConnect(w) ==
    /\ wPc[w] = "idle"
    /\ wPc' = [wPc EXCEPT ![w] = "acq"]
    /\ UNCHANGED <<busVars, wRef, wPrev, wFrame, wChunks>>
    /\ NotWorker

\* Line 116: with lock.
WAcquire(w) ==
    /\ wPc[w] = "acq"
    /\ lock = Free
    /\ lock' = WorkerT(w)
    /\ wPc' = [wPc EXCEPT ![w] = "check"]
    /\ UNCHANGED <<output_frame, heap, wRef, wPrev, wFrame, wChunks>>
    /\ NotWorker

\* Lines 117-120: no frame yet: sleep (inside the with block); otherwise start
\* output_frame.copy() with the first pixel.
WCheck(w) ==
    /\ wPc[w] = "check"
    /\ IF SlotEmpty(output_frame)
       THEN /\ wPc' = [wPc EXCEPT ![w] = "sleep_locked"]
            /\ UNCHANGED <<wRef, wPrev, wFrame>>
       ELSE /\ wPc' = [wPc EXCEPT ![w] = "copy"]
            /\ wPrev' = [wPrev EXCEPT ![w] = wRef[w]]
            /\ wRef' = [wRef EXCEPT ![w] = output_frame]
            /\ wFrame' = [wFrame EXCEPT ![w] = <<heap[output_frame][1], 0>>]
    /\ UNCHANGED <<busVars, wChunks>>
    /\ NotWorker

\* Lines 118-119: time.sleep(0.01) is over; continue leaves the with block.
WSleepWake(w) ==
    /\ wPc[w] = "sleep_locked"
    /\ lock' = Free
    /\ wPc' = [wPc EXCEPT ![w] = "acq"]
    /\ UNCHANGED <<output_frame, heap, wRef, wPrev, wFrame, wChunks>>
    /\ NotWorker

\* Lines 116-120: the with block holds only the copy; encoding and the writes
\* (121-131) come after the lock is released.
LockAfterCopyKept(w) == WorkerT(w)
LockAfterCopy(w) == Free

\* Line 120: the copy is complete; the with block ends.
WCopyEnd(w) ==
    /\ wPc[w] = "copy"
    /\ wFrame' = [wFrame EXCEPT ![w] = <<@[1], heap[wRef[w]][2]>>]
    /\ lock' = LockAfterCopy(w)
    /\ wPc' = [wPc EXCEPT ![w] = "encode"]
    /\ UNCHANGED <<output_frame, heap, wRef, wPrev, wChunks>>
    /\ NotWorker

\* Lines 123-125: cv2.imencode; on failure continue.
WEncode(w, ret) ==
    /\ wPc[w] = "encode"
    /\ wPc' = [wPc EXCEPT ![w] = IF ret THEN "write" ELSE "acq"]
    /\ output_frame' = SlotAfterEncode(output_frame, wRef[w])
    /\ UNCHANGED <<lock, heap, wRef, wPrev, wFrame, wChunks>>
    /\ NotWorker

\* Lines 127-131: the four writes of one multipart chunk succeed.
WWriteOk(w) ==
    /\ wPc[w] = "write"
    /\ wChunks[w] < MaxChunks
    /\ wChunks' = [wChunks EXCEPT ![w] = @ + 1]
    /\ wPc' = [wPc EXCEPT ![w] = "acq"]
    /\ UNCHANGED <<busVars, wRef, wPrev, wFrame>>
    /\ NotWorker

\* Lines 132-133: the except clause breaks out of the while loop; stream_video
\* returns.
AfterWriteFailureRetry == "acq"
AfterWriteFailure == "done"

\* Lines 132-133: BrokenPipeError / ConnectionResetError: break.
WWriteFail(w) ==
    /\ wPc[w] = "write"
    /\ wPc' = [wPc EXCEPT ![w] = AfterWriteFailure]
    /\ UNCHANGED <<busVars, wRef, wPrev, wFrame, wChunks>>
    /\ NotWorker

\* A worker whose frames always encode.
WorkerStep(w) ==
    \/ WConnect(w) \/ WAcquire(w) \/ WCheck(w) \/ WSleepWake(w)
    \/ WCopyEnd(w) \/ WEncode(w, TRUE) \/ WWriteOk(w) \/ WWriteFail(w)

\* ---------------------------------------------------------- analysis loop
NotAi ==
    UNCHANGED <<capVars, wVars, ai_enabled, stVars, anVars, tgVars,
                textVars>>

\* ai_analysis_loop only reads the slot: resize and encode work on its own copy
\* (lines 688-703).
SlotAfterResizeWriteBack(slot, ref) == ref
SlotAfterResize(slot, ref) == slot

\* Lines 665 and 684: with lock.
AiAcquire ==
    /\ aiPc \in {"wait_acq", "snap_acq"}
    /\ lock = Free
    /\ lock' = AiT
    /\ aiPc' = IF aiPc = "wait_acq" THEN "wait_check" ELSE "snap_check"
    /\ UNCHANGED <<output_frame, heap, aiRef, aiPrev, aiFrame, ncycles, nsubmits,
                   frame_count, consecutive_errors, aiErr, aiPaceVars, anaVars>>
    /\ NotAi

\* Lines 664-668: wait for the first frame; the sleep is outside the with block.
AiWaitCheck ==
    /\ aiPc = "wait_check"
    /\ lock' = Free
    /\ aiPc' = IF ~SlotEmpty(output_frame) THEN "top" ELSE "wait_sleep"
    /\ sleep_time' = IF ~SlotEmpty(output_frame) THEN 0 ELSE WaitPoll
    /\ UNCHANGED <<output_frame, heap, aiRef, aiPrev, aiFrame, ncycles, nsubmits,
                   frame_count, consecutive_errors, aiErr, elapsed, enabledAtUpdate,
                   aiEvent, anaVars>>
    /\ NotAi

\* Line 676: the cycle goes on if ai_enabled is true.
GateAlwaysOpen(flag) == TRUE
GateOpen(flag) == flag

\* Lines 674-680: the enabled check at the top of a cycle; at most `limit` cycles
\* pass it.
AiTopUpTo(limit) ==
    /\ aiPc = "top"
    /\ IF ~GateOpen(ai_enabled)
       THEN /\ aiPc' = "dis_sleep"
            /\ sleep_time' = DisabledPoll
            /\ UNCHANGED ncycles
       ELSE /\ ncycles < limit
            /\ ncycles' = ncycles + 1
            /\ aiPc' = "snap_acq"
            /\ UNCHANGED sleep_time
    /\ UNCHANGED <<busVars, aiRef, aiPrev, aiFrame, nsubmits, frame_count,
                   consecutive_errors, aiErr, elapsed, enabledAtUpdate, aiEvent,
                   anaVars>>
    /\ NotAi

AiTop == AiTopUpTo(MaxCycles)

\* Lines 685-688: no frame: sleep inside the with block; otherwise start
\* output_frame.copy() with the first pixel.
AiSnapCheck ==
    /\ aiPc = "snap_check"
    /\ IF SlotEmpty(output_frame)
       THEN /\ aiPc' = "snap_sleep_locked"
            /\ sleep_time' = WaitPoll
            /\ UNCHANGED <<aiRef, aiPrev, aiFrame>>
       ELSE /\ aiPc' = "copy"
            /\ aiPrev' = aiRef
            /\ aiRef' = output_frame
            /\ aiFrame' = <<heap[output_frame][1], 0>>
            /\ UNCHANGED sleep_time
    /\ UNCHANGED <<busVars, ncycles, nsubmits, frame_count, consecutive_errors,
                   aiErr, elapsed, enabledAtUpdate, aiEvent, anaVars>>
    /\ NotAi

\* Lines 684-688: the with block of the snapshot ends before the request and
\* before the with analysis_lock blocks (735, 746, 752, 759).
LockAfterSnapshotKept == AiT
LockAfterSnapshot == Free

\* Line 688: the copy is complete; the with block ends.
AiCopyEnd ==
    /\ aiPc = "copy"
    /\ aiFrame' = <<aiFrame[1], heap[aiRef][2]>>
    /\ lock' = LockAfterSnapshot
    /\ aiPc' = "encode"
    /\ UNCHANGED <<output_frame, heap, aiRef, aiPrev, ncycles, nsubmits, frame_count,
                   consecutive_errors, aiErr, aiPaceVars, anaVars>>
    /\ NotAi

\* Lines 692-715: resize, encode, and send the request; a failed encode raises.
AiEncode(ret) ==
    /\ aiPc = "encode"
    /\ output_frame' = SlotAfterResize(output_frame, aiRef)
    /\   IF ret
         THEN /\ aiPc' = "submit"
              /\ nsubmits' = nsubmits + 1
              /\ UNCHANGED <<consecutive_errors, aiErr, aiEvent>>
         ELSE /\ aiPc' = "err_acq"
              /\ consecutive_errors' = consecutive_errors + 1
              /\ aiErr' = "other"
              /\ aiEvent' = "encode_failed"
              /\ UNCHANGED nsubmits
    /\ UNCHANGED <<lock, heap, aiRef, aiPrev, aiFrame, ncycles, frame_count,
                   elapsed, sleep_time, enabledAtUpdate, anaVars>>
    /\ NotAi

\* requests.post returns or raises: "ok" (status 200 and a JSON body), "timeout",
\* "connection", or "other" (any other status, any other exception).
Outcomes == {"ok", "timeout", "connection", "other"}

\* Line 731: frame_count += 1.
CountUnchanged(c) == c
CountAfterSuccess(c) == c + 1

\* What requests.post and response.json() can meet, beyond Outcomes: a 2xx status
\* other than 200, a 5xx status, a connect timeout (requests' ConnectTimeout is both
\* a ConnectionError and a Timeout), and a body that is not JSON.
Events == Outcomes \cup {"created", "server_error", "connect_timeout", "bad_json"}

\* Lines 717-721: the cycle succeeds on status 200 with a JSON body.
SucceedsWithoutStatusCheck(ev) == ev \in {"ok", "created", "server_error"}
Succeeds(ev) == ev = "ok"

\* isinstance tests of the except clauses.
IsTimeout(ev) == ev \in {"timeout", "connect_timeout"}
IsConnectionError(ev) == ev \in {"connection", "connect_timeout"}

\* Lines 744, 750, 756: the first except clause that matches handles the failure.
Classify(ev) ==
    IF IsTimeout(ev) THEN "timeout"
    ELSE IF IsConnectionError(ev) THEN "connection"
    ELSE "other"

\* Lines 717-732 and the except clauses' first lines (745, 751, 757); a successful
\* cycle has taken e since line 680.
AiReply(out, e) ==
    /\ aiPc = "submit"
    /\ aiEvent' = out
    /\   IF Succeeds(out)
         THEN /\ frame_count' = CountAfterSuccess(frame_count)
              /\ consecutive_errors' = 0
              /\ aiErr' = "none"
              /\ elapsed' = e
              /\ aiPc' = "ok_acq"
         ELSE /\ consecutive_errors' = consecutive_errors + 1
              /\ aiErr' = Classify(out)
              /\ aiPc' = "err_acq"
              /\ UNCHANGED <<frame_count, elapsed>>
    /\ UNCHANGED <<busVars, aiRef, aiPrev, aiFrame, ncycles, nsubmits, sleep_time,
                   enabledAtUpdate, anaVars>>
    /\ NotAi

\* The inference service answers within the interval.
AiResponse(out) == AiReply(out, FastReply)

\* Lines 735, 746, 752, 759: with analysis_lock.
AiResultAcquire ==
    /\ aiPc \in {"ok_acq", "err_acq"}
    /\ analysis_lock = Free
    /\ analysis_lock' = AiT
    /\ aiPc' = IF aiPc = "ok_acq" THEN "ok_fields" ELSE "err_update"
    /\ UNCHANGED <<busVars, aiRef, aiPrev, aiFrame, ncycles, nsubmits, frame_count,
                   consecutive_errors, aiErr, aiPaceVars, analysis_result, committed>>
    /\ NotAi

ErrorMessage(kind) ==
    CASE kind = "timeout" -> "Analysis timeout - model may be overloaded"
      [] kind = "connection" -> "Cannot connect to Ollama - is it running? (ollama serve)"
      [] OTHER -> "Analysis error"

\* Line 739: analysis_result['error'] = None.
ErrorAfterSuccessKept(old) == old
ErrorAfterSuccess(old) == "none"

\* Lines 736-740: the five fields of a successful cycle (the timestamp is the
\* number of the cycle, the processing time the time the cycle took).
SuccessResult(r, cycle, took, count) ==
    [description |-> "analysis", timestamp |-> cycle, processing_time |-> took,
     error |-> ErrorAfterSuccess(r.error), frame_count |-> count]

\* Lines 747, 753, 760: only analysis_result['error'] is assigned.
FailureResultReset(r, msg) == [InitialAnalysis EXCEPT !.error = msg]
FailureResult(r, msg) == [r EXCEPT !.error = msg]

\* Lines 735-761 do not read ai_enabled: the result is stored whatever the flag is.
ApplyResultIfEnabled(flag, new, old) == IF flag THEN new ELSE old
ApplyResult(flag, new, old) == new

Min(a, b) == IF a <= b THEN a ELSE b
Max(a, b) == IF a >= b THEN a ELSE b

\* Line 765: backoff = min(analysis_interval * consecutive_errors, 30.0).
BackoffUncapped(k) == AnalysisInterval * k
Backoff(k) == Min(AnalysisInterval * k, BackoffCap)

\* Line 770: sleep_time = max(0.1, analysis_interval - elapsed).
SleepTimeNoFloor(e) == AnalysisInterval - e
SleepTime(e) == Max(MinDelay, AnalysisInterval - e)

\* Lines 744-761: the except clauses end normally, so after a failure as after a
\* success the loop goes on to its pacing sleep.
AfterUpdateRaise(pc) == IF pc = "err_update" THEN "exited" ELSE "pace_sleep"
AfterUpdate(pc) == "pace_sleep"

\* Lines 736-738: description, timestamp and processing_time are assigned, one
\* after the other, before error and frame_count.
AiResultFields ==
    /\ aiPc = "ok_fields"
    /\ analysis_result' = [analysis_result EXCEPT !.description = "analysis",
                                                  !.timestamp = ncycles,
                                                  !.processing_time = elapsed]
    /\ aiPc' = "ok_update"
    /\ UNCHANGED <<busVars, aiRef, aiPrev, aiFrame, ncycles, nsubmits, frame_count,
                   consecutive_errors, aiErr, aiPaceVars, analysis_lock, committed>>
    /\ NotAi

\* Lines 736-740, 747, 753, 760: the update; the with block ends; lines 764-771:
\* the pacing sleep begins.
AiResultUpdate ==
    /\ aiPc \in {"ok_update", "err_update"}
    /\ analysis_result' =
         ApplyResult(ai_enabled,
                     IF aiPc = "ok_update"
                     THEN SuccessResult(analysis_result, ncycles, elapsed, frame_count)
                     ELSE FailureResult(analysis_result, ErrorMessage(aiErr)),
                     analysis_result)
    /\ committed' = analysis_result'
    /\ enabledAtUpdate' = ai_enabled
    /\ analysis_lock' = Free
    /\ sleep_time' = IF consecutive_errors > 0
                     THEN Backoff(consecutive_errors)
                     ELSE SleepTime(elapsed)
    /\ aiPc' = AfterUpdate(aiPc)
    /\ UNCHANGED <<busVars, aiRef, aiPrev, aiFrame, ncycles, nsubmits, frame_count,
                   consecutive_errors, aiErr, elapsed, aiEvent>>
    /\ NotAi

\* Lines 668, 677, 686-687, 766, 771: a time.sleep is over.
AiWake ==
    /\ aiPc \in {"wait_sleep", "dis_sleep", "snap_sleep_locked", "pace_sleep"}
    /\ aiPc' = IF aiPc = "wait_sleep" THEN "wait_acq" ELSE "top"
    /\ lock' = IF aiPc = "snap_sleep_locked" THEN Free ELSE lock
    /\ sleep_time' = 0
    /\ elapsed' = 0
    /\ enabledAtUpdate' = TRUE
    /\ aiEvent' = "none"
    /\ UNCHANGED <<output_frame, heap, aiRef, aiPrev, aiFrame, ncycles, nsubmits,
                   frame_count, consecutive_errors, aiErr, anaVars>>
    /\ NotAi

\* The analysis loop up to the request, and after the response, with at most
\* `limit` cycles.
AiLoopUpTo(limit) ==
    \/ AiAcquire \/ AiWaitCheck \/ AiTopUpTo(limit) \/ AiSnapCheck \/ AiCopyEnd
    \/ AiResultAcquire \/ AiResultFields \/ AiResultUpdate \/ AiWake

AiLoop == AiLoopUpTo(MaxCycles)

\* ------------------------------------------------------------ GET /status
NotStatus ==
    UNCHANGED <<busVars, capVars, wVars, aiVars, ai_enabled, anaVars, anVars, tgVars,
                textVars>>

\* Line 138, second conjunct: camera.isOpened().
IsRunningNotNone(h) == h # NoCamera
IsRunning(h) == h.opened

\* do_GET, lines 94-99: the 200 response line and the headers are sent.
StBegin ==
    /\ stPc = "idle"
    /\ stPc' = "chk_none"
    /\ stPub' = (version > 0)
    /\ UNCHANGED <<stResp, stW, stH, stCam, stClean>>
    /\ NotStatus

\* Line 138, first conjunct: camera is not None.
StCheckNone ==
    /\ stPc = "chk_none"
    /\ IF camera = NoCamera
       THEN /\ stResp' = [NoResp EXCEPT !.status = "no camera"]
            /\ stPc' = "write"
       ELSE /\ stPc' = "chk_open"
            /\ UNCHANGED stResp
    /\ UNCHANGED <<stW, stH, stCam, stClean, stPub>>
    /\ NotStatus

\* Line 138, second conjunct; on None the call raises AttributeError.
StCheckOpen ==
    /\ stPc = "chk_open"
    /\ IF camera = NoCamera
       THEN /\ stPc' = "crashed"
            /\ UNCHANGED <<stResp, stCam>>
       ELSE /\ stCam' = camera
            /\ IF IsRunning(camera)
               THEN stPc' = "get_w" /\ UNCHANGED stResp
               ELSE /\ stPc' = "write"
                    /\ stResp' = [NoResp EXCEPT !.status = "no camera"]
    /\ UNCHANGED <<stW, stH, stClean, stPub>>
    /\ NotStatus

\* Lines 139-147: three reads of the global camera, then json.dumps.
StGet ==
    /\ stPc \in {"get_w", "get_h", "get_fps"}
    /\ IF camera = NoCamera
       THEN /\ stPc' = "crashed"
            /\ UNCHANGED <<stW, stH, stResp, stClean>>
       ELSE /\ stClean' = (stClean /\ camera = stCam)
            /\ CASE stPc = "get_w" ->
                      /\ stW' = CameraGet(camera, "width")
                      /\ stPc' = "get_h"
                      /\ UNCHANGED <<stH, stResp>>
                 [] stPc = "get_h" ->
                      /\ stH' = CameraGet(camera, "height")
                      /\ stPc' = "get_fps"
                      /\ UNCHANGED <<stW, stResp>>
                 [] OTHER ->
                      /\ stResp' = [status |-> "running", width |-> stW, height |-> stH,
                                    fps |-> CameraGet(camera, "fps")]
                      /\ stPc' = "write"
                      /\ UNCHANGED <<stW, stH>>
    /\ UNCHANGED <<stCam, stPub>>
    /\ NotStatus

\* Line 100: the body is written and the handler returns; after an AttributeError
\* the handler thread ends without a body.
StWrite ==
    /\ stPc \in {"write", "crashed"}
    /\ stPc' = "idle"
    /\ stResp' = NoResp
    /\ stW' = 0
    /\ stH' = 0
    /\ stCam' = NoCamera
    /\ stClean' = TRUE
    /\ stPub' = FALSE
    /\ NotStatus

StatusStep == StBegin \/ StCheckNone \/ StCheckOpen \/ StGet \/ StWrite

\* ---------------------------------------------------------- GET /analysis
NotAnalysis ==
    UNCHANGED <<busVars, capVars, wVars, aiVars, ai_enabled, stVars, tgVars,
                textVars>>

\* Line 153: with analysis_lock waits until no other thread holds the lock.
LockIgnored(owner) == TRUE
LockAvailable(owner) == owner = Free

\* do_GET, lines 101-105, and line 153: headers sent; with analysis_lock.
AnAcquire ==
    /\ anPc = "idle"
    /\ LockAvailable(analysis_lock)
    /\ analysis_lock' = AnT
    /\ anPc' = "read"
    /\ UNCHANGED <<analysis_result, committed, anResp>>
    /\ NotAnalysis

\* Lines 154-162: the fields are read under the lock.
AnRead ==
    /\ anPc = "read"
    /\ anResp' = [enabled |-> ai_enabled, result |-> analysis_result, sent |-> TRUE]
    /\ analysis_lock' = Free
    /\ anPc' = "write"
    /\ UNCHANGED <<analysis_result, committed>>
    /\ NotAnalysis

\* Line 106: the body is written; the handler returns.
AnWrite ==
    /\ anPc = "write"
    /\ anResp' = NoAnalysis
    /\ anPc' = "idle"
    /\ UNCHANGED anaVars
    /\ NotAnalysis

AnalysisStep == AnAcquire \/ AnRead \/ AnWrite

\* --------------------------------------------------------- GET /toggle_ai
NotToggle ==
    UNCHANGED <<busVars, capVars, wVars, aiVars, anaVars, stVars, anVars,
                textVars>>

\* Line 167, right-hand side: the global ai_enabled is read.
TgRead(t) ==
    /\ tgPc[t] = "idle"
    /\ tgRead' = [tgRead EXCEPT ![t] = ai_enabled]
    /\ tgPc' = [tgPc EXCEPT ![t] = "store"]
    /\ UNCHANGED <<ai_enabled, tgResp>>
    /\ NotToggle

\* Line 167, the assignment: the negation of the value read is stored.
TgStore(t) ==
    /\ tgPc[t] = "store"
    /\ ai_enabled' = ~tgRead[t]
    /\ tgPc' = [tgPc EXCEPT ![t] = "respond"]
    /\ UNCHANGED <<tgRead, tgResp>>
    /\ NotToggle

\* Lines 168-172: headers, then the body built from the global ai_enabled.
TgRespond(t) ==
    /\ tgPc[t] = "respond"
    /\ tgResp' = [tgResp EXCEPT ![t] = IF ai_enabled THEN "enabled" ELSE "disabled"]
    /\ tgPc' = [tgPc EXCEPT ![t] = "write"]
    /\ UNCHANGED <<ai_enabled, tgRead>>
    /\ NotToggle

\* Line 172: the body is written; the handler returns.
TgWrite(t) ==
    /\ tgPc[t] = "write"
    /\ tgResp' = [tgResp EXCEPT ![t] = "none"]
    /\ tgRead' = [tgRead EXCEPT ![t] = FALSE]
    /\ tgPc' = [tgPc EXCEPT ![t] = "idle"]
    /\ UNCHANGED ai_enabled
    /\ NotToggle

ToggleStep(t) == TgRead(t) \/ TgStore(t) \/ TgRespond(t) \/ TgWrite(t)

\* ------------------------------------------------------- response cleanup
\* A text is a sequence of pieces. "<thi" followed at once by "nk>" spells the
\* start marker <think>; no other sequence of these pieces contains it, and
\* </think> occurs only as its own piece.
Pieces == {"<thi", "nk>", "</think>", " ", "\n", "x"}
Whitespace == {" ", "\n"}
Texts == UNION {[1..n -> Pieces] : n \in 0..MaxTextLen}

StartsAt(t, i) == i + 1 <= Len(t) /\ t[i] = "<thi" /\ t[i + 1] = "nk>"
EndsAfter(t, i) == {j \in (i + 2)..Len(t) : t[j] = "</think>"}
FirstOf(S) == CHOOSE j \in S : \A k \in S : j <= k

\* flags=re.DOTALL: the dot of .*? matches every character, newline included.
DotMatchesNoNewline(c) == c # "\n"
DotMatches(c) == TRUE

\* <think>.*?</think> matches at i: the start marker, then the shortest run of
\* characters the dot matches, up to the first end marker.
MatchesAt(t, i) ==
    /\ StartsAt(t, i)
    /\ EndsAfter(t, i) # {}
    /\ \A k \in (i + 2)..(FirstOf(EndsAfter(t, i)) - 1) : DotMatches(t[k])

\* re.sub(pattern, '', t): one scan from left to right; a match is dropped and the
\* scan continues behind it; the result is not scanned again.
RECURSIVE SubFrom(_, _)
SubFrom(t, i) ==
    IF i > Len(t) THEN <<>>
    ELSE IF MatchesAt(t, i) THEN SubFrom(t, FirstOf(EndsAfter(t, i)) + 1)
    ELSE <<t[i]>> \o SubFrom(t, i + 1)

Sub(t) == SubFrom(t, 1)

\* str.strip(): leading and trailing whitespace is dropped.
RECURSIVE LStrip(_)
LStrip(t) == IF t # <<>> /\ Head(t) \in Whitespace THEN LStrip(Tail(t)) ELSE t

RECURSIVE RStrip(_)
RStrip(t) ==
    IF t # <<>> /\ t[Len(t)] \in Whitespace THEN RStrip(SubSeq(t, 1, Len(t) - 1)) ELSE t

Strip(t) == RStrip(LStrip(t))

\* str.split('\n'): the pieces between newlines, empty ones included.
RECURSIVE SplitFrom(_, _, _)
SplitFrom(t, i, cur) ==
    IF i > Len(t) THEN <<cur>>
    ELSE IF t[i] = "\n" THEN <<cur>> \o SplitFrom(t, i + 1, <<>>)
    ELSE SplitFrom(t, i + 1, Append(cur, t[i]))

Split(t) == SplitFrom(t, 1, <<>>)

\* '\n'.join(lines)
RECURSIVE Join(_)
Join(ls) ==
    IF ls = <<>> THEN <<>>
    ELSE IF Len(ls) = 1 THEN ls[1]
    ELSE ls[1] \o <<"\n">> \o Join(Tail(ls))

\* line.strip() for line in ... if line.strip()
RECURSIVE TrimmedNonEmpty(_)
TrimmedNonEmpty(ls) ==
    IF ls = <<>> THEN <<>>
    ELSE IF Strip(ls[1]) = <<>> THEN TrimmedNonEmpty(Tail(ls))
    ELSE <<Strip(ls[1])>> \o TrimmedNonEmpty(Tail(ls))

\* Line 725.
RemoveReasoning(t) == Strip(Sub(t))

\* Line 728.
NormalizeLines(t) == Join(TrimmedNonEmpty(Split(t)))

\* Lines 725-728.
Cleanup(t) == NormalizeLines(RemoveReasoning(t))

NotText ==
    UNCHANGED <<busVars, capVars, wVars, aiVars, ai_enabled, anaVars, stVars, anVars,
                tgVars>>

\* Line 725: re.sub(...).strip()
CleanRemove ==
    /\ textPc = "received"
    /\ result_text' = RemoveReasoning(result_text)
    /\ textPc' = "stripped"
    /\ UNCHANGED response_text
    /\ NotText

\* Line 728: the lines are trimmed, the empty ones dropped, the rest joined.
CleanLines ==
    /\ textPc = "stripped"
    /\ result_text' = NormalizeLines(result_text)
    /\ textPc' = "cleaned"
    /\ UNCHANGED response_text
    /\ NotText

\* --------------------------------------------------------- specifications
\* Frame distribution: capture from a healthy device, two stream workers and the
\* analysis loop with an inference service that answers.
NextBus ==
    \/ CaptureLoop
    \/ \E w \in Workers : WorkerStep(w)
    \/ AiLoop
    \/ AiEncode(TRUE)
    \/ AiResponse("ok")

SpecBus == Init /\ [][NextBus]_vars

\* The capture service with a device that may fail any read and any open, and /status.
NextCapture ==
    \/ CaptureLoop
    \/ CapReadFail
    \/ CapRetryWake
    \/ CaptureReopen
    \/ StatusStep

SpecCapture == Init /\ [][NextCapture]_vars

\* A device that stops delivering for good: the capture loop with failing reads
\* and a reopen that fails, the analysis loop, and a client that connects to
\* /video_feed and asks /status once the capture service is reopening or has
\* failed with a frame in the slot. The worker then never finds the slot empty and
\* /status never finds an open handle, so their steps for those cases are left out.
Stale == CaptureState \in {"Reopening", "Failed"} /\ output_frame # 0

NextStale ==
    \/ CaptureLoop
    \/ CapReadFail
    \/ CapRetryWake
    \/ CapReopenWake
    \/ (\E out \in OpenOutcomes \ {"ok"} : CapReopenWith(out))
    \/ (Stale /\ WConnect(1))
    \/ WAcquire(1) \/ WCheck(1) \/ WCopyEnd(1)
    \/ WEncode(1, TRUE) \/ WWriteOk(1) \/ WWriteFail(1)
    \/ AiLoop
    \/ AiEncode(TRUE)
    \/ AiResponse("ok")
    \/ (Stale /\ StBegin)
    \/ StCheckNone \/ StCheckOpen \/ StWrite

SpecStale == Init /\ [][NextStale]_vars

\* Every thread and every endpoint: one /video_feed connection, and a client that
\* sends its JSON requests one after the other.
NoRequest == stPc = "idle" /\ anPc = "idle" /\ \A t \in Togglers : tgPc[t] = "idle"

Next ==
    \/ CaptureLoop
    \/ WorkerStep(1)
    \/ AiLoop
    \/ AiEncode(TRUE)
    \/ AiResponse("ok")
    \/ (NoRequest /\ StBegin)
    \/ StCheckNone \/ StCheckOpen \/ StGet \/ StWrite
    \/ (NoRequest /\ AnAcquire)
    \/ AnRead \/ AnWrite
    \/ (NoRequest /\ TgRead(1))
    \/ TgStore(1) \/ TgRespond(1) \/ TgWrite(1)

Spec == Init /\ [][Next]_vars

\* Toggling: capture from a healthy device, the analysis loop with a service that
\* answers or times out, and two concurrent /toggle_ai handlers.
NextToggle ==
    \/ CaptureLoop
    \/ AiLoop
    \/ AiEncode(TRUE)
    \/ AiResponse("ok")
    \/ AiResponse("timeout")
    \/ \E t \in Togglers : ToggleStep(t)

SpecToggle == Init /\ [][NextToggle]_vars

\* SpecBus with every thread running whenever it can take a step: Python schedules
\* each runnable thread, and threading.Lock hands the lock to no waiter in particular.
CaptureThread == CaptureLoop
AiThread == AiLoop \/ AiEncode(TRUE) \/ AiResponse("ok")

FairBus ==
    /\ SpecBus
    /\ WF_vars(CaptureThread)
    /\ WF_vars(AiThread)
    /\ \A w \in Workers : WF_vars(WorkerStep(w))

\* Analysis results: capture from a healthy device, the analysis loop with frames
\* that may not encode and a service that may fail in each way, and a /toggle_ai
\* client.
NextAnalysis ==
    \/ CaptureLoop
    \/ AiLoopUpTo(MaxAnalysisCycles)
    \/ \E ret \in BOOLEAN : AiEncode(ret)
    \/ \E out \in Outcomes : AiResponse(out)
    \/ ToggleStep(1)

SpecAnalysis == Init /\ [][NextAnalysis]_vars

\* Classification: capture from a healthy device and the analysis loop with frames
\* that may not encode and a service that answers or fails in every way.
NextClassify ==
    \/ CaptureLoop
    \/ AiLoop
    \/ \E ret \in BOOLEAN : AiEncode(ret)
    \/ \E ev \in Events : AiResponse(ev)

SpecClassify == Init /\ [][NextClassify]_vars

\* Retrying: capture from a healthy device and the analysis loop with a service
\* that answers or fails in every way; both threads run whenever they can.
AiRetryThread ==
    \/ AiLoopUpTo(MaxAnalysisCycles)
    \/ AiEncode(TRUE)
    \/ \E ev \in Events : AiResponse(ev)

NextRetry == CaptureLoop \/ AiRetryThread

SpecRetry == Init /\ [][NextRetry]_vars

FairRetry ==
    /\ SpecRetry
    /\ WF_vars(CaptureThread)
    /\ WF_vars(AiRetryThread)

\* Reading results: capture from a healthy device, the analysis loop with a service
\* that answers or times out, and /analysis requests.
NextSnapshot ==
    \/ CaptureLoop
    \/ AiLoopUpTo(MaxAnalysisCycles)
    \/ AiEncode(TRUE)
    \/ AiResponse("ok")
    \/ AiResponse("timeout")
    \/ AnalysisStep

SpecSnapshot == Init /\ [][NextSnapshot]_vars

\* Line 721: a response text has been received; lines 725-728 clean it.
InitCleanup ==
    /\ InitProgram(FALSE)
    /\ response_text \in Texts
    /\ result_text = response_text
    /\ textPc = "received"

NextCleanup == CleanRemove \/ CleanLines

SpecCleanup == InitCleanup /\ [][NextCleanup]_vars

\* Pacing: capture from a healthy device and the analysis loop with a service that
\* answers after any of the reply times, or times out.
NextBackoff ==
    \/ CaptureLoop
    \/ AiLoopUpTo(MaxBackoffCycles)
    \/ AiEncode(TRUE)
    \/ \E e \in ReplyTimes : AiReply("ok", e)
    \/ AiResponse("timeout")

SpecBackoff == Init /\ [][NextBackoff]_vars

\* Resuming: a process started with or without --no-ai, a healthy device, a service
\* that answers, and one /toggle_ai client.  The capture thread and (if it was
\* started) the analysis thread run whenever they can; the client is free.
NextResume ==
    \/ CaptureLoop
    \/ AiLoop
    \/ AiEncode(TRUE)
    \/ AiResponse("ok")
    \/ ToggleStep(1)

SpecResume == InitAny /\ [][NextResume]_vars

FairResume ==
    /\ SpecResume
    /\ WF_vars(CaptureThread)
    /\ WF_vars(AiThread)

\* ------------------------------------------------------------------ claims
\* A reader holds a finished copy of the slot.
WHolds(w) == wPc[w] \in {"encode", "write"}
AiHolds ==
    aiPc \in {"encode", "submit", "ok_acq", "ok_fields", "ok_update", "err_acq",
              "err_update"}

\* A copy is the frame of one publish: both pixels of the same image.
Whole(f, ref) == f = <<ref, ref>> /\ ref >= 1 /\ ref <= version

\* C1: the frames one reader obtains are non-decreasing in publish order: the k-th
\* publish stores frame k, and no snapshot of a reader returns an earlier frame
\* than that reader's previous snapshot.
C1_NoRegression ==
    /\ output_frame = version
    /\ \A w \in Workers : wRef[w] >= wPrev[w]
    /\ aiRef >= aiPrev

\* C1 witness: a stream worker took a snapshot of frame 1 and, later, of frame 2.
C1_Witness == \E w \in Workers : wPrev[w] = 1 /\ wRef[w] = 2 /\ WHolds(w)

\* C2: a snapshot is exactly the frame of one publish, never a mixture of two, and
\* no step of the capture thread (read or publish) changes a copy a reader holds.
C2_AtomicSnapshot ==
    [][ /\ \A w \in Workers : WHolds(w)' => Whole(wFrame[w], wRef[w])'
        /\ AiHolds' => Whole(aiFrame, aiRef)'
        /\ capPc' # capPc => wFrame' = wFrame /\ aiFrame' = aiFrame ]_vars

\* C2 witness: a worker holds its copy of frame 1 while the capture thread has
\* already published frame 2.
C2_Witness == \E w \in Workers : WHolds(w) /\ wFrame[w] = <<1, 1>> /\ output_frame = 2

\* C3: before the first publish the slot is empty, and while it is empty no worker
\* has a frame to encode or has written a chunk, and the analysis loop has sent no
\* request.
C3_EmptyUntilPublish ==
    /\ version = 0 => output_frame = 0
    /\ output_frame = 0 =>
         /\ \A w \in Workers :
              wChunks[w] = 0 /\ wPc[w] \in {"idle", "acq", "check", "sleep_locked"}
         /\ nsubmits = 0
         /\ aiPc \in {"not_started", "wait_acq", "wait_check", "wait_sleep"}

\* C3 witness: both kinds of reader have polled the empty slot.
C3_Witness ==
    /\ output_frame = 0
    /\ \E w \in Workers : wPc[w] = "sleep_locked"
    /\ aiPc = "wait_sleep"

\* C4: no thread holds the frame lock or the analysis lock while it sleeps, reads
\* the device, waits for the inference service or writes to a client.
C4_NoLockWhileSuspended ==
    /\ \A w \in Workers : wPc[w] \in {"sleep_locked", "write"} => lock # WorkerT(w)
    /\ aiPc \in {"wait_sleep", "dis_sleep", "snap_sleep_locked", "pace_sleep", "submit"}
         => lock # AiT /\ analysis_lock # AiT
    /\ capPc \in {"open", "read", "read_fill", "retry_sleep", "reopen_wait", "reopen"}
         => lock # CapT

\* C5: once the capture loop has read a frame it eventually gets the frame lock and
\* publishes the frame, whatever the readers do.
C5_CaptureNeverStarved == (capPc = "pub_acq") ~> (capPc = "publish")

\* C6: only the capture loop's publish changes the stored frame: any step that
\* changes the slot is line 651 storing the frame just read, and the buffer the
\* slot refers to is never written.
C6_OnlyCaptureWrites ==
    [][ /\ output_frame' # output_frame =>
             capPc = "publish" /\ capPc' = "read" /\ output_frame' = frame
        /\ output_frame # 0 => heap'[output_frame] = heap[output_frame] ]_vars

\* C6 witness: the slot has been replaced while a worker wrote a chunk, the analysis
\* loop sent a request and an endpoint handler is about to answer.
C6_Witness ==
    /\ output_frame = 2
    /\ wChunks[1] = 1
    /\ nsubmits = 1
    /\ tgPc[1] = "write"

\* C7: once the failure counter has exceeded 30, exactly one reopen attempt
\* (release, wait, open) is made before the loop reads again, a reopen is attempted
\* for no other reason, and the counter is 0 after every successful read.
C7_OneReopenThenRead ==
    /\ capPc \in {"pub_acq", "publish"} => consecutive_failures = 0
    /\ capPc \in {"reopen_wait", "reopen"} =>
         /\ exceeded
         /\ reopenAttempts = 0
         /\ consecutive_failures = FailureThreshold + 1
         /\ ~camera.opened
    /\ exceeded /\ capPc \in {"retry_sleep", "read", "failed"} => reopenAttempts = 1
    /\ reopenAttempts > 0 => exceeded /\ reopenAttempts = 1
    /\ exceeded => capPc \in {"reopen_wait", "reopen", "retry_sleep", "read", "failed"}

\* C7 witness: after a frame was published the counter exceeded 30, and the loop is
\* back at its read after one reopen.
C7_Witness == exceeded /\ capPc = "read" /\ reopenAttempts = 1 /\ version > 0

\* C8: a reopen whose open fails puts the capture service into Failed, which is
\* terminal: no later step reads the device, publishes or reopens; /status is still
\* served there and answers "no camera".
C8_FailedIsTerminal ==
    [][ /\ capPc = "reopen" /\ camera' = NoCamera => capPc' = "failed"
        /\ capPc = "failed" =>
             /\ UNCHANGED <<capVars, busVars>>
             /\ camera = NoCamera
             /\ stPc = "idle" => ENABLED StBegin
             /\ stPc = "chk_none" /\ stPc' # stPc =>
                  stPc' = "write" /\ stResp'.status = "no camera" ]_vars

\* C8 witness: in Failed, with a frame published earlier, /status answers "no camera".
C8_Witness ==
    /\ capPc = "failed"
    /\ version > 0
    /\ stPub
    /\ stPc = "write"
    /\ stResp.status = "no camera"

\* C9: /status decides "running" exactly when the capture service is Capturing at
\* the moment of the isOpened() test, and "no camera" in Closed, Opening, Reopening
\* and Failed; a running body carries width, height and fps.
C9_StatusFollowsState ==
    [][ /\ stPc \in {"chk_none", "chk_open"} /\ stPc' = "get_w" =>
             CaptureState = "Capturing"
        /\ stPc \in {"chk_none", "chk_open"} /\ stPc' = "write" =>
             CaptureState # "Capturing" /\ stResp'.status = "no camera"
        /\ stPc = "chk_none" /\ stPc' # stPc /\ CaptureState = "Capturing" =>
             stPc' = "chk_open"
        /\ stPc = "chk_open" /\ stPc' # stPc /\ CaptureState = "Capturing" =>
             stPc' = "get_w"
        /\ stPc = "get_fps" /\ stPc' = "write" => stResp'.status = "running" ]_vars

\* C9 witness: during a reopen, with the released handle still in camera, /status
\* answers "no camera".
C9_Witness ==
    /\ CaptureState = "Reopening"
    /\ stCam # NoCamera
    /\ stPc = "write"
    /\ stResp.status = "no camera"

\* The body /status sends for a handle in mode m.
RunningBody(m) ==
    [status |-> "running", width |-> ModeWidth(m), height |-> ModeHeight(m),
     fps |-> ModeFps(m)]

C11_RequestsComplete ==
    /\ stPc # "crashed"
    /\ stPc = "write" => stResp.status \in {"running", "no camera"}
    /\ anPc = "write" => anResp.sent

\* The analysis loop is between the enabled check and the end of the result update
\* (lines 680-761).
InCycle ==
    aiPc \in {"snap_acq", "snap_check", "snap_sleep_locked", "copy", "encode", "submit",
              "ok_acq", "ok_fields", "ok_update", "err_acq", "err_update"}

\* C12 as stated: the analysis loop takes a snapshot or issues a submission only
\* while the enabled flag is true, for every interleaving with toggle requests.
C12_NoSubmitWhileDisabled ==
    [][ (nsubmits' # nsubmits \/ (aiPc = "snap_check" /\ aiPc' = "copy"))
            => ai_enabled ]_vars

\* C12 amended: a cycle begins only by an enabled check that read true; a check that
\* reads false leads to the one-second sleep without snapshot or submission; and a
\* snapshot is taken and a submission issued only inside a cycle (a flag cleared
\* after the check does not stop them).
C12_NoCycleStartsWhileDisabled ==
    [][ /\ ~InCycle /\ InCycle' => aiPc = "top" /\ ai_enabled
        /\ aiPc = "top" /\ ~ai_enabled /\ aiPc' # aiPc =>
             /\ aiPc' = "dis_sleep"
             /\ sleep_time' = DisabledPoll
             /\ UNCHANGED <<nsubmits, aiRef, aiFrame, ncycles>>
        /\ (nsubmits' # nsubmits \/ aiRef' # aiRef \/ aiFrame' # aiFrame) => InCycle
      ]_vars

\* C12 witness: after one submission the flag was cleared and the loop, having read
\* it at the top, sleeps without starting a cycle.
C12_Witness == aiPc = "dis_sleep" /\ ~ai_enabled /\ nsubmits = 1 /\ ncycles = 1

\* C13: when a /toggle_ai request has turned the flag from false to true after a
\* frame was published (the process may have been started with --no-ai), the
\* analysis loop issues a new submission, unless the flag is cleared again first.
C13_ToggleResumes ==
    (/\ tgPc[1] = "respond" /\ ~tgRead[1] /\ ai_enabled
     /\ version > 0
     /\ ncycles < MaxCycles)
        ~> (aiPc = "submit" \/ ~ai_enabled)

\* C14: every /toggle_ai request flips the flag exactly once (so n completed requests
\* leave it negated n times), and the body of its response carries the value that
\* this request stored.
C14_ToggleFlipsOnce ==
    [][ \A t \in Togglers :
          /\ tgPc[t] = "store" /\ tgPc'[t] = "respond" => ai_enabled' = ~ai_enabled
          /\ tgPc[t] = "respond" /\ tgPc'[t] = "write" =>
               tgResp'[t] = IF ~tgRead[t] THEN "enabled" ELSE "disabled" ]_vars

\* C15: the flag is consulted only by the check at the top of the loop: a cycle
\* that has passed the check is left only through its result update, the update
\* stores the cycle's success or failure whatever the flag is by then, and a toggle
\* changes nothing of the loop or of the analysis state.
C15_ToggleAtNextCheck ==
    [][ /\ aiPc' = "dis_sleep" /\ aiPc' # aiPc => aiPc = "top" /\ ~ai_enabled
        /\ InCycle /\ ~InCycle' /\ aiPc # "snap_sleep_locked" =>
             aiPc \in {"ok_update", "err_update"} /\ aiPc' = "pace_sleep"
        /\ aiPc = "ok_update" /\ aiPc' # aiPc =>
             /\ analysis_result'.description = "analysis"
             /\ analysis_result'.timestamp = ncycles
             /\ analysis_result'.error = "none"
             /\ analysis_result'.frame_count = frame_count
        /\ aiPc = "err_update" /\ aiPc' # aiPc =>
             analysis_result'.error = ErrorMessage(aiErr)
        /\ ai_enabled' # ai_enabled => UNCHANGED <<aiVars, anaVars>> ]_vars

\* C15 witness: the flag was false when the result of a successful cycle was stored,
\* and the result is in the analysis state.
C15_Witness ==
    /\ aiPc = "pace_sleep"
    /\ ~enabledAtUpdate
    /\ ~ai_enabled
    /\ frame_count = 1
    /\ analysis_result.frame_count = 1
    /\ analysis_result.description = "analysis"

\* C16: the sleep after the k-th consecutive failed cycle is min(5 s * k, 30 s),
\* that is 5, 10, 15, 20, 25 seconds and 30 seconds from k = 6 on; a successful
\* cycle resets the counter to 0, so the sleep after it is the success sleep (at
\* most the interval) and the next failure sleeps 5 s again.
C16_BackoffSequence ==
    /\ aiPc \in {"ok_acq", "ok_fields", "ok_update"} => consecutive_errors = 0
    /\ aiPc \in {"err_acq", "err_update"} => consecutive_errors >= 1
    /\ aiPc = "pace_sleep" =>
         /\ consecutive_errors \in 1..5 => sleep_time = 50 * consecutive_errors
         /\ consecutive_errors >= 6 => sleep_time = 300
         /\ consecutive_errors = 0 => aiErr = "none" /\ sleep_time \in 1..50
         /\ aiErr # "none" => consecutive_errors >= 1

\* C16 witness: after one successful cycle, the seventh failure in a row sleeps 30 s.
C16_Witness ==
    /\ aiPc = "pace_sleep"
    /\ frame_count = 1
    /\ consecutive_errors = 7
    /\ sleep_time = 300

\* C17: the sleep after a successful cycle that took `elapsed` is
\* max(0.1 s, 5 s - elapsed): cycle start to cycle start is 5 s when elapsed is at
\* most 4.9 s and elapsed + 0.1 s otherwise, and the sleep is never below 0.1 s.
C17_SuccessSleep ==
    aiPc = "pace_sleep" /\ consecutive_errors = 0 =>
        /\ sleep_time >= 1
        /\ elapsed <= 49 => elapsed + sleep_time = 50
        /\ elapsed > 49 => elapsed + sleep_time = elapsed + 1

\* C17 witness: a successful cycle that took longer than the interval sleeps 0.1 s.
C17_Witness ==
    /\ aiPc = "pace_sleep"
    /\ consecutive_errors = 0
    /\ elapsed = 75
    /\ sleep_time = 1

\* C18: the published frame_count never decreases; it changes only in the result
\* update of a successful cycle, and every such update raises it by exactly 1 (so,
\* starting from 0, it is the number of successful cycles completed); failed
\* cycles, toggles and disabled polls leave it alone.
C18_FrameCountCountsSuccesses ==
    [][ /\ analysis_result'.frame_count >= analysis_result.frame_count
        /\ analysis_result'.frame_count # analysis_result.frame_count =>
             aiPc = "ok_update" /\ aiPc' = "pace_sleep"
        /\ aiPc = "ok_update" /\ aiPc' # aiPc =>
             /\ analysis_result'.frame_count = analysis_result.frame_count + 1
             /\ analysis_result'.frame_count = frame_count ]_vars

\* C18 witness: two successful cycles, then a failed one, a toggle and a disabled
\* poll: the published count is 2.
C18_Witness ==
    /\ analysis_result.frame_count = 2
    /\ analysis_result.error # "none"
    /\ ~ai_enabled
    /\ aiPc = "dis_sleep"

\* C19: the update of a successful cycle leaves the error field empty; the update
\* of a failed cycle leaves it non-empty; and a non-empty error becomes empty only
\* by the update of a successful cycle, whatever failures, toggles and disabled
\* polls come between.
C19_ErrorUntilSuccess ==
    [][ /\ aiPc = "ok_update" /\ aiPc' # aiPc => analysis_result'.error = "none"
        /\ aiPc = "err_update" /\ aiPc' # aiPc => analysis_result'.error # "none"
        /\ analysis_result.error # "none" /\ analysis_result'.error = "none" =>
             aiPc = "ok_update" /\ aiPc' = "pace_sleep"
        /\ aiPc = "pace_sleep" /\ consecutive_errors = 0 =>
             analysis_result.error = "none" ]_vars

\* C19 witness: after a success, two failed cycles, a toggle and a disabled poll, the
\* error is still set.
C19_Witness ==
    /\ aiPc = "dis_sleep"
    /\ frame_count = 1
    /\ consecutive_errors = 2
    /\ analysis_result.error # "none"

\* C20: a failed cycle adds exactly 1 to the consecutive-error counter and leaves
\* the loop's frame_count alone, and its update assigns only the error field:
\* description, timestamp, processing_time and frame_count keep their values.
C20_FailureChangesOnlyError ==
    [][ /\ aiPc \in {"encode", "submit"} /\ aiPc' = "err_acq" =>
             /\ consecutive_errors' = consecutive_errors + 1
             /\ frame_count' = frame_count
             /\ analysis_result' = analysis_result
        /\ aiPc \in {"err_acq", "err_update"} =>
             consecutive_errors' = consecutive_errors /\ frame_count' = frame_count
        /\ aiPc = "err_update" /\ aiPc' # aiPc =>
             /\ analysis_result'.description = analysis_result.description
             /\ analysis_result'.timestamp = analysis_result.timestamp
             /\ analysis_result'.processing_time = analysis_result.processing_time
             /\ analysis_result'.frame_count = analysis_result.frame_count
             /\ analysis_result'.error = ErrorMessage(aiErr) ]_vars

\* C20 witness: after a successful cycle two cycles failed, the second one on the
\* connection; the fields of the successful cycle are still there.
C20_Witness ==
    /\ aiPc = "pace_sleep"
    /\ consecutive_errors = 2
    /\ analysis_result.error = ErrorMessage("connection")
    /\ analysis_result.description = "analysis"
    /\ analysis_result.timestamp = 1
    /\ analysis_result.processing_time = FastReply
    /\ analysis_result.frame_count = 1

\* C21: every failed attempt is put into exactly one of the classes Timeout,
\* ConnectionUnavailable and Other, and the message of that class is published; a
\* status other than 200 (2xx or not), a transport failure and an unreadable body
\* are failures, and only a 200 answer makes a successful cycle.
C21_FailuresClassified ==
    /\ aiPc \in {"ok_acq", "ok_fields", "ok_update"} => aiEvent = "ok"
    /\ aiPc \in {"err_acq", "err_update"} =>
         aiEvent \notin {"ok", "none"} /\ aiErr \in {"timeout", "connection", "other"}
    /\ aiPc = "pace_sleep" =>
         /\ aiEvent = "ok" <=> consecutive_errors = 0
         /\ aiEvent = "ok" => analysis_result.error = "none"
         /\ aiEvent \in {"timeout", "connect_timeout"} =>
              analysis_result.error = "Analysis timeout - model may be overloaded"
         /\ aiEvent = "connection" =>
              analysis_result.error
                  = "Cannot connect to Ollama - is it running? (ollama serve)"
         /\ aiEvent \in {"created", "server_error", "bad_json", "other", "encode_failed"}
              => analysis_result.error = "Analysis error"
         /\ analysis_result.frame_count = frame_count

\* C21 witness: a 500 answer was published as an error of class Other, and no
\* successful cycle was counted.
C21_Witness ==
    /\ aiPc = "pace_sleep"
    /\ aiEvent = "server_error"
    /\ analysis_result.error = "Analysis error"
    /\ frame_count = 0
    /\ consecutive_errors = 1

\* C22: no inference failure stops the analysis loop: after a failed request, with
\* analysis enabled and a frame in the slot, the loop gets to another cycle and
\* issues another submission.
C22_FailuresNeverStop ==
    (aiPc = "err_acq" /\ ai_enabled /\ output_frame # 0 /\ ncycles < MaxAnalysisCycles)
        ~> (aiPc = "submit")

\* C22 witness: a submission is in progress after two failed cycles in a row.
C22_Witness == aiPc = "submit" /\ consecutive_errors = 2 /\ nsubmits = 3

\* C23: the result of a cycle is applied as a whole for every reader: outside the
\* writer's critical section the analysis state is the one the last finished
\* update left, and the five fields of every /analysis response are those of one
\* such state, never some fields of a cycle and some of the next.
C23_ResultAtomic ==
    [][ /\ analysis_lock # AiT => analysis_result = committed
        /\ anPc = "read" /\ anPc' = "write" =>
             anResp'.sent /\ anResp'.result = committed ]_vars

\* C23 witness: a response shows the first cycle's result with the second cycle's
\* error while the third cycle's result waits for the lock or is being written.
C23_Witness ==
    /\ anPc = "write"
    /\ anResp.result.frame_count = 1
    /\ anResp.result.description = "analysis"
    /\ anResp.result.error # "none"
    /\ frame_count = 2
    /\ aiPc \in {"ok_acq", "ok_fields", "ok_update"}

\* C24: a failed client write ends that connection's worker and nothing else: the
\* failing step changes no frame slot, lock, capture, analysis or other worker's
\* state, and the ended worker never writes, takes the lock or moves again.
C24_WriteFailureIsolated ==
    [][ \A w \in Workers :
          /\ wPc[w] = "write" /\ wPc'[w] # "write" /\ wChunks'[w] = wChunks[w] =>
               /\ wPc'[w] = "done"
               /\ \A v \in Workers \ {w} : wPc'[v] = wPc[v]
               /\ UNCHANGED <<busVars, capVars, aiVars, anaVars, ai_enabled,
                              wRef, wPrev, wFrame, wChunks>>
          /\ wPc[w] = "done" =>
               /\ wPc'[w] = "done"
               /\ wChunks'[w] = wChunks[w]
               /\ lock # WorkerT(w) /\ lock' # WorkerT(w) ]_vars

\* C24 witness: worker 1 has ended on its first write; the capture loop has
\* published a second frame since and worker 2 has delivered it.
C24_Witness ==
    /\ wPc[1] = "done"
    /\ wChunks[1] = 0
    /\ version = 2
    /\ wRef[2] = output_frame
    /\ wChunks[2] = 1

\* C25: a worker blocked in a client write holds no lock and disables no step of
\* another thread: while it stays in the write, the capture loop, the other worker
\* and the analysis loop can each take the frame lock whenever no third thread
\* holds it.
C25_BlockedWriteHoldsNothing ==
    \A w \in Workers :
        wPc[w] = "write" =>
            /\ lock # WorkerT(w)
            /\ capPc = "pub_acq" /\ lock \in {Free, WorkerT(w)} => ENABLED CapAcquire
            /\ aiPc \in {"wait_acq", "snap_acq"} /\ lock \in {Free, WorkerT(w)} =>
                 ENABLED AiAcquire
            /\ \A v \in Workers \ {w} :
                 wPc[v] = "acq" /\ lock \in {Free, WorkerT(w)} => ENABLED WAcquire(v)

\* C25 witness: worker 1 is still in the write of the first frame it copied, with
\* nothing delivered, while the capture loop has published a later frame and
\* worker 2 has delivered it.
C25_Witness ==
    /\ wPc[1] = "write"
    /\ wChunks[1] = 0
    /\ wRef[1] # output_frame
    /\ version = 2
    /\ wRef[2] = output_frame
    /\ wChunks[2] = 1
    /\ wPc[2] = "acq"

\* A text holds a start marker with an end marker somewhere behind it.
HasSection(t) == \E i \in 1..Len(t) : StartsAt(t, i) /\ EndsAfter(t, i) # {}

HasStart(t) == \E i \in 1..Len(t) : StartsAt(t, i)

\* No empty line and no line that begins or ends with whitespace.
LinesClean(t) ==
    /\ t # <<>> => t[1] \notin Whitespace /\ t[Len(t)] \notin Whitespace
    /\ \A i \in 1..(Len(t) - 1) :
         /\ t[i] = "\n" => t[i + 1] \notin Whitespace
         /\ t[i + 1] = "\n" => t[i] \notin Whitespace

\* The text is p, one section (start marker, m, end marker), then s: the section
\* is the only one a scan from the left finds.
OneSection(t, i, j) ==
    /\ StartsAt(t, i)
    /\ j \in EndsAfter(t, i)
    /\ ~HasStart(SubSeq(t, 1, i))
    /\ \A k \in (i + 2)..(j - 1) : t[k] # "</think>"
    /\ ~HasStart(SubSeq(t, j + 1, Len(t)))

\* Trimming and joining the lines of a text directly, for comparison.
Plain(t) == NormalizeLines(Strip(t))

\* C26 as stated: the cleaned text has no empty line and no line with leading or
\* trailing whitespace, and cleaning it again changes nothing.
C26_CleanupIdempotent ==
    textPc = "cleaned" =>
        /\ LinesClean(result_text)
        /\ Cleanup(result_text) = result_text

\* C26 amended: the cleanup removes the section between a start marker and the
\* first end marker behind it, also across lines, and leaves the rest as trimmed,
\* non-empty lines; cleaning the output again changes nothing provided the output
\* holds no start marker followed by an end marker.
C26_CleanupNormalizes ==
    textPc = "cleaned" =>
        /\ result_text = Cleanup(response_text)
        /\ LinesClean(result_text)
        /\ \A i, j \in 1..Len(response_text) :
             OneSection(response_text, i, j) =>
                result_text = Plain(SubSeq(response_text, 1, i - 1)
                                      \o SubSeq(response_text, j + 1, Len(response_text)))
        /\ ~HasStart(response_text) => result_text = Plain(response_text)
        /\ ~HasSection(result_text) => Cleanup(result_text) = result_text

\* C26 witness: a section that spans two lines has been removed and the word
\* before it, with the blank in front of it, is left as one trimmed line.
C26_Witness ==
    /\ textPc = "cleaned"
    /\ response_text = <<" ", "x", "<thi", "nk>", "\n", "</think>">>
    /\ result_text = <<"x">>

\* C27: the consecutive-failure counter stays within 0..31, and the device is
\* released and reopened only by the read failure that raises the counter from 30
\* to 31: every other step of the running loop leaves the handle alone.
C27_ReopenOnlyAtThreshold ==
    [][ /\ consecutive_failures \in 0..(FailureThreshold + 1)
        /\ consecutive_failures' \in 0..(FailureThreshold + 1)
        /\ capPc' = "reopen_wait" /\ capPc' # capPc =>
             /\ capPc = "read"
             /\ consecutive_failures = FailureThreshold
             /\ consecutive_failures' = FailureThreshold + 1
             /\ nOpen' = nOpen - 1
        /\ capPc' = "reopen" /\ capPc' # capPc => capPc = "reopen_wait"
        /\ capPc # "open" /\ (camera' # camera \/ nOpen' # nOpen) =>
             \/ capPc = "read" /\ consecutive_failures = FailureThreshold
             \/ capPc = "reopen" /\ consecutive_failures = FailureThreshold + 1
        /\ capPc = "read" /\ capPc' = "retry_sleep" =>
             /\ consecutive_failures' = consecutive_failures + 1
             /\ consecutive_failures' <= FailureThreshold
             /\ camera' = camera /\ nOpen' = nOpen ]_vars

\* C27 witness: thirty reads in a row have failed after a frame was published, and
\* the loop retries on the same open handle.
C27_Witness ==
    /\ capPc = "retry_sleep"
    /\ consecutive_failures = FailureThreshold
    /\ version = 1
    /\ nOpen = 1
    /\ camera # NoCamera
    /\ ~exceeded

\* C28: no thread holds the frame lock and the analysis lock together, and whoever
\* holds a lock is not waiting for anything: its next step, which leads to the
\* release, is enabled. So no reachable state has threads waiting for each other's
\* locks.
C28_NoNestedLocks ==
    /\ ~(lock = AiT /\ analysis_lock = AiT)
    /\ lock \in {Free, CapT, AiT} \cup {WorkerT(w) : w \in Workers}
    /\ analysis_lock \in {Free, AiT, AnT}
    /\ lock = CapT => ENABLED CapPublish
    /\ lock = AiT => ENABLED AiThread
    /\ \A w \in Workers : lock = WorkerT(w) => ENABLED WorkerStep(w)
    /\ analysis_lock = AiT => ENABLED (AiResultFields \/ AiResultUpdate)
    /\ analysis_lock = AnT => ENABLED AnRead

\* C28 witness: both locks are held, by different threads (a worker copies the
\* frame, the analysis loop writes its result), while the capture loop waits for
\* the frame lock.
C28_Witness ==
    /\ lock = WorkerT(1)
    /\ analysis_lock = AiT
    /\ capPc = "pub_acq"

\* C29: a slot that holds a frame never becomes empty again; while the capture
\* service is reopening or has failed the slot and the frame in it stay as they
\* are, a worker's and the analysis loop's check of the slot goes on to copy that
\* frame, and a /status request checked in that state answers "no camera".
C29_LastFrameStays ==
    [][ /\ output_frame # 0 => output_frame' # 0
        /\ CaptureState \in {"Reopening", "Failed"} =>
             /\ output_frame' = output_frame
             /\ heap' = heap
        /\ CaptureState \in {"Reopening", "Failed"} /\ output_frame # 0 =>
             /\ \A w \in Workers :
                  wPc[w] = "check" /\ wPc'[w] # wPc[w] =>
                      wPc'[w] = "copy" /\ wRef'[w] = output_frame
             /\ aiPc = "snap_check" /\ aiPc' # aiPc =>
                  aiPc' = "copy" /\ aiRef' = output_frame
             /\ aiPc = "wait_check" /\ aiPc' # aiPc => aiPc' = "top"
        /\ CaptureState = "Failed" /\ stPc = "chk_none" /\ stPc' # stPc =>
             stPc' = "write" /\ stResp'.status = "no camera"
        /\ CaptureState = "Reopening" /\ stPc = "chk_open" /\ stPc' # stPc =>
             stPc' = "write" /\ stResp'.status = "no camera" ]_vars

\* C29 witness: the capture service has failed; a client that connected afterwards
\* has received the last frame, the analysis loop is copying it for a request, and
\* /status is answering "no camera".
C29_Witness ==
    /\ capPc = "failed"
    /\ output_frame # 0
    /\ wChunks[1] = 1
    /\ wRef[1] = output_frame
    /\ aiPc = "copy"
    /\ aiRef = output_frame
    /\ stPc = "write"
    /\ stResp.status = "no camera"

\* C30: at most one device handle is open at any time: a handle is opened only
\* when none is open, the global camera is the open handle if there is one, and
\* while the service is opening, reopening, closed or failed no handle is open.
C30_OneHandle ==
    [][ /\ nOpen \in {0, 1} /\ nOpen' \in {0, 1}
        /\ nOpen = 1 <=> camera.opened
        /\ CaptureState \in {"Opening", "Reopening", "Closed", "Failed"} => nOpen = 0
        /\ nOpen' > nOpen => nOpen = 0 /\ capPc \in {"open", "reopen"}
        /\ capPc = "reopen" /\ capPc' # capPc =>
             nOpen' = (IF capPc' = "failed" THEN 0 ELSE 1) ]_vars

\* C30 witness: the device was released after 31 failed reads and opened again:
\* one handle is open and the loop reads from it.
C30_Witness ==
    /\ capPc = "read"
    /\ exceeded
    /\ reopenAttempts = 1
    /\ consecutive_failures = 0
    /\ nOpen = 1
    /\ camera.opened

\* C31: an initial open that yields no usable handle ends the capture thread: no
\* step of the capture loop is enabled afterwards (no retry), no handle is open,
\* the slot stays empty, and the stream workers and the analysis loop only poll
\* the empty slot: no chunk is written and no request is submitted.
C31_InitialOpenFailureIsFinal ==
    [][ /\ capPc = "open" /\ capPc' # capPc /\ ~camera'.opened =>
             capPc' = "closed" /\ camera' = NoCamera /\ nOpen' = 0
        /\ capPc = "closed" =>
             /\ ~ENABLED (CaptureLoop \/ CapReadFail \/ CapRetryWake \/ CaptureReopen)
             /\ UNCHANGED capVars
             /\ version = 0 /\ nOpen = 0 /\ camera = NoCamera
             /\ output_frame = 0 /\ output_frame' = 0
             /\ nsubmits = 0 /\ nsubmits' = 0
             /\ aiPc' \in {"wait_acq", "wait_check", "wait_sleep"}
             /\ \A w \in Workers :
                  /\ wChunks'[w] = 0
                  /\ wPc'[w] \in {"idle", "acq", "check", "sleep_locked"} ]_vars

\* C31 witness: the initial open has failed; one worker sleeps on the empty slot,
\* the other waits for the frame lock, and the analysis loop sleeps in its wait
\* for the first frame.
C31_Witness ==
    /\ capPc = "closed"
    /\ wPc[1] = "sleep_locked"
    /\ wPc[2] = "acq"
    /\ aiPc = "wait_sleep"

====
